---- MODULE Spec2Model ----
(***************************************************************************)
(* Model of the FFBB standings scraper (scraper.py) and of the extraction  *)
(* routine of its predecessor (scrapper.py).                               *)
(*                                                                         *)
(* Python values are records [t |-> type, v |-> value]; text that the code *)
(* normalises (cell and header text) is a sequence of one-character        *)
(* strings, messages the code never inspects are plain strings.  The       *)
(* updated_at timestamp of a snapshot is left out: nothing reads it.       *)
(***************************************************************************)
EXTENDS Integers, Sequences, FiniteSets, TLC

VARIABLES
    file,               \* content of OUTPUT_FILE (data.json)
    pc,                 \* position of each run of main()
    previous_payload,   \* main(): previous_payload
    html,               \* main(): html
    fetch_error,        \* main(): fetch_error
    table,              \* parse_standings(): table (index in the document, 0 = None)
    standings,          \* main(): standings
    parse_error,        \* main(): parse_error
    warning,            \* main(): warning
    payload,            \* main(): payload
    exc,                \* name of the exception that ended the run, "" if none
    scrapper_html,      \* scrapper.py main(): html
    scrapper_standings  \* scrapper.py main(): standings_data

vars == <<file, pc, previous_payload, html, fetch_error, table, standings,
          parse_error, warning, payload, exc, scrapper_html, scrapper_standings>>

(***************************************************************************)
(* Bounds                                                                  *)
(***************************************************************************)
MaxTables == 2      \* tables in a generated document
MaxRows == 2        \* rows in a generated table
MaxPrevRows == 2    \* rows of the snapshot found at start

(***************************************************************************)
(* Python values                                                           *)
(***************************************************************************)
None == [t |-> "null", v |-> 0]
Absent == [t |-> "absent", v |-> 0]
PyInt(n) == [t |-> "int", v |-> n]
PyStr(s) == [t |-> "str", v |-> s]      \* a message, kept whole
PyText(s) == [t |-> "text", v |-> s]    \* a string, character by character
PyList(s) == [t |-> "list", v |-> s]
PyDict(d) == [t |-> "dict", v |-> d]

\* bool(x)
Truthy(x) ==
    CASE x.t = "int" -> x.v # 0
      [] x.t = "str" -> x.v # ""
      [] x.t = "text" -> x.v # <<>>
      [] x.t = "list" -> x.v # <<>>
      [] x.t = "dict" -> TRUE
      [] x.t = "html" -> ~x.v.empty
      [] OTHER -> FALSE

\* a or b
PyOr(a, b) == IF Truthy(a) THEN a ELSE b

\* len(x) is defined (no TypeError)
HasLen(x) == x.t \in {"list", "text"}

\* len(x), where it is defined
PyLen(x) == Len(x.v)

(***************************************************************************)
(* Text                                                                    *)
(***************************************************************************)
Whitespace == {" ", "\n", "\t"}

UpperCase == <<"A", "B", "C", "D", "E", "F", "G", "H", "I", "J", "K", "L", "M",
               "N", "O", "P", "Q", "R", "S", "T", "U", "V", "W", "X", "Y", "Z">>
LowerCase == <<"a", "b", "c", "d", "e", "f", "g", "h", "i", "j", "k", "l", "m",
               "n", "o", "p", "q", "r", "s", "t", "u", "v", "w", "x", "y", "z">>

\* str.lower()
lower(s) ==
    [i \in 1..Len(s) |->
        IF \E k \in 1..Len(UpperCase) : UpperCase[k] = s[i]
        THEN LowerCase[CHOOSE k \in 1..Len(UpperCase) : UpperCase[k] = s[i]]
        ELSE s[i]]

\* str.split(): the maximal runs of non-whitespace characters
RECURSIVE split(_, _, _)
split(s, cur, acc) ==
    IF s = <<>> THEN (IF cur = <<>> THEN acc ELSE Append(acc, cur))
    ELSE IF Head(s) \in Whitespace
         THEN split(Tail(s), <<>>, IF cur = <<>> THEN acc ELSE Append(acc, cur))
         ELSE split(Tail(s), Append(cur, Head(s)), acc)

\* sep.join(parts)
RECURSIVE join(_, _)
join(sep, parts) ==
    IF parts = <<>> THEN <<>>
    ELSE IF Len(parts) = 1 THEN parts[1]
    ELSE parts[1] \o sep \o join(sep, Tail(parts))

\* needle in hay
Contains(hay, needle) ==
    \E i \in 1..(Len(hay) - Len(needle) + 1) :
        SubSeq(hay, i, i + Len(needle) - 1) = needle

\* str.strip()
RECURSIVE lstrip(_)
lstrip(s) == IF s # <<>> /\ Head(s) \in Whitespace THEN lstrip(Tail(s)) ELSE s

RECURSIVE rstrip(_)
rstrip(s) ==
    IF s # <<>> /\ s[Len(s)] \in Whitespace THEN rstrip(SubSeq(s, 1, Len(s) - 1)) ELSE s

strip(s) == rstrip(lstrip(s))

\* clean_text(tag), on the raw text of the tag
clean_text(raw) == join(<<" ">>, split(raw, <<>>, <<>>))

(***************************************************************************)
(* Markup.  A document is what the parser shows of it: whether the text is *)
(* empty, and its tables in document order; a table is the text of its th  *)
(* elements and, per tr element, the text of its td elements.              *)
(***************************************************************************)
Pts == <<"p", "t", "s">>
Equipe == <<"e", "q", "u", "i", "p", "e">>
Rang == <<"r", "a", "n", "g">>
Classement == <<"c", "l", "a", "s", "s", "e", "m", "e", "n", "t">>

\* faulty variant of header_match: the header text is not lower-cased
header_match_cased(tbl) ==
    LET headers == [k \in 1..Len(tbl.th) |-> clean_text(tbl.th[k])]
        header_blob == join(<<" ">>, headers)
    IN  /\ Contains(header_blob, Pts)
        /\ \/ Contains(header_blob, Equipe)
           \/ Contains(header_blob, Rang)
           \/ Contains(header_blob, Classement)

\* find_target_table(): the test of one table
header_match(tbl) ==
    LET headers == [k \in 1..Len(tbl.th) |-> lower(clean_text(tbl.th[k]))]
        header_blob == join(<<" ">>, headers)
    IN  /\ Contains(header_blob, Pts)
        /\ \/ Contains(header_blob, Equipe)
           \/ Contains(header_blob, Rang)
           \/ Contains(header_blob, Classement)

\* find_target_table(soup): index of the table returned, 0 for None
RECURSIVE find_from(_, _)
find_from(tables, i) ==
    IF i > Len(tables) THEN 0
    ELSE IF header_match(tables[i]) THEN i
    ELSE find_from(tables, i + 1)

find_target_table(doc) == find_from(doc.tables, 1)

NumFields == 6

\* parse_standings(): the entry built from the cells of one row
entry(cells) ==
    [rank |-> clean_text(cells[1]),
     name |-> clean_text(cells[2]),
     points |-> clean_text(cells[3]),
     played |-> IF Len(cells) > 3 THEN clean_text(cells[4]) ELSE <<>>,
     won |-> IF Len(cells) > 4 THEN clean_text(cells[5]) ELSE <<>>,
     lost |-> IF Len(cells) > 5 THEN clean_text(cells[6]) ELSE <<>>]

\* parse_standings(): the loop over the rows of the table
RECURSIVE collect_rows(_)
collect_rows(rows) ==
    IF rows = <<>> THEN <<>>
    ELSE IF Len(Head(rows)) < 3 THEN collect_rows(Tail(rows))
    ELSE <<entry(Head(rows))>> \o collect_rows(Tail(rows))

NotFound == PyStr("Standings table not found")
NoRows == PyStr("No standings rows parsed")

\* parse_standings(): after the table was looked up
extract_rows(doc, t) ==
    IF t = 0 THEN [rows |-> <<>>, err |-> NotFound]
    ELSE LET found == collect_rows(doc.tables[t].tr)
         IN  IF found = <<>> THEN [rows |-> <<>>, err |-> NoRows]
             ELSE [rows |-> found, err |-> None]

parse_standings(doc) == extract_rows(doc, find_target_table(doc))

(***************************************************************************)
(* scrapper.py: the extraction of the earlier script                       *)
(***************************************************************************)
PtsCased == <<"P", "t", "s">>

\* table.text: the strings of the table, concatenated
table_text(tbl) ==
    join(<<>>, tbl.th) \o join(<<>>, [j \in 1..Len(tbl.tr) |-> join(<<>>, tbl.tr[j])])

RECURSIVE scrapper_find_from(_, _)
scrapper_find_from(tables, i) ==
    IF i > Len(tables) THEN 0
    ELSE IF tables[i].th # <<>> /\ Contains(table_text(tables[i]), PtsCased) THEN i
    ELSE scrapper_find_from(tables, i + 1)

\* the loop over the rows: a row with 3 to 5 cells raises IndexError and is skipped
RECURSIVE scrapper_collect_rows(_)
scrapper_collect_rows(rows) ==
    IF rows = <<>> THEN <<>>
    ELSE LET cols == Head(rows)
         IN  IF Len(cols) > 2 /\ ~(Len(cols) < NumFields)   \* cols[5] exists
             THEN <<[rank |-> strip(cols[1]),
                     name |-> join(<<" ">>, split(strip(cols[2]), <<>>, <<>>)),
                     points |-> strip(cols[3]),
                     played |-> strip(cols[4]),
                     won |-> strip(cols[5]),
                     lost |-> strip(cols[6])]>> \o scrapper_collect_rows(Tail(rows))
             ELSE scrapper_collect_rows(Tail(rows))

scrapper_parse_standings(doc) ==
    LET t == scrapper_find_from(doc.tables, 1)
    IN  IF t = 0 THEN <<>> ELSE scrapper_collect_rows(doc.tables[t].tr)

(***************************************************************************)
(* Inputs                                                                  *)
(***************************************************************************)
BSeq(S, n) == UNION {[1..m -> S] : m \in 0..n}

HeaderChoices ==
    << << <<"R", "a", "n", "g">>, <<"E", "q", "u", "i", "p", "e">>, <<"P", "t", "s">> >>,
       << <<" ", "P", "T", "S", "\n">>,
          <<"C", "L", "A", "S", "S", "E", "M", "E", "N", "T">> >>,
       << <<"P", "t", "s">> >>,
       << <<"E", "q", "u", "i", "p", "e">>, <<"R", "a", "n", "g">> >>,
       << >>,
       << <<"P">>, <<"t", "s">>, <<"R", "a", "n", "g">> >> >>

CellTexts ==
    << <<"1">>,
       <<" ", "C", "l", "u", "b", " ", " ", "A", "\n">>,
       <<"2", "0">>,
       <<"1", "0">>,
       <<"\t", "7">>,
       <<"3", " ">>,
       <<"P", "t", "s">> >>

CellText(i, j, k) == CellTexts[((i + j + k) % Len(CellTexts)) + 1]

GenTable(h, counts, i) ==
    [th |-> HeaderChoices[h],
     tr |-> [j \in 1..Len(counts) |-> [k \in 1..counts[j] |-> CellText(i, j, k)]]]

\* cells per row: too few, just enough, some of the optional ones, all, more
CellCounts == {2, 3, 5, NumFields, NumFields + 1}

\* the documents of the extraction runs: up to MaxTables tables, each with
\* one of the header rows above and up to MaxRows rows
Markups ==
    {[empty |-> FALSE, tables |-> [i \in 1..Len(hs) |-> GenTable(hs[i], counts, i)]] :
        hs \in BSeq(1..Len(HeaderChoices), MaxTables),
        counts \in BSeq(CellCounts, MaxRows)}

EmptyPage == [empty |-> TRUE, tables |-> <<>>]
GarbledPage == [empty |-> FALSE, tables |-> <<>>]
PageA == [empty |-> FALSE, tables |-> <<GenTable(1, <<0, 3>>, 5)>>]
PageB == [empty |-> FALSE, tables |-> <<GenTable(3, <<6>>, 1), GenTable(2, <<6, 2, 4>>, 2)>>]
PageNoRows == [empty |-> FALSE, tables |-> <<GenTable(1, <<0, 2>>, 1)>>]

\* what the URL may answer in the runs of main()
Pages == {EmptyPage, GarbledPage, PageA, PageB, PageNoRows}

Html(doc) == [t |-> "html", v |-> doc]

\* the outcome of one HTTP client: a page, or an exception raised by the
\* request, a requests.RequestException or not
Failure(k) == [kind |-> k, page |-> EmptyPage]

ClientOutcomes ==
    {[kind |-> "ok", page |-> d] : d \in Pages} \cup
    {Failure("RequestException"), Failure("RuntimeError")}

\* the first client may also fail to be built, before any request
FirstOutcomes == ClientOutcomes \cup {Failure("create_scraper")}

OldRow(n) ==
    [rank |-> <<LowerCase[n]>>, name |-> <<"O", "l", "d">>, points |-> CellTexts[3],
     played |-> CellTexts[4], won |-> <<>>, lost |-> <<>>]

OldRows(n) == [i \in 1..n |-> OldRow(i)]

URL == "https://competitions.ffbb.com/.../classement"

Snapshot(s, n, st, w) ==
    PyDict([source |-> PyStr(URL), standings |-> s, standing_count |-> n,
            status |-> st, warning |-> w])

EmptyDict ==
    PyDict([source |-> Absent, standings |-> Absent, standing_count |-> Absent,
            status |-> Absent, warning |-> Absent])

FileMissing == [t |-> "missing", v |-> 0]
FileGarbage == [t |-> "garbage", v |-> 0]

\* what a run may find in data.json: no file, text that is not JSON, JSON that
\* is not an object, objects without usable rows, and earlier snapshots
InitialFiles ==
    {FileMissing, FileGarbage, PyList(<<>>), None, EmptyDict,
     Snapshot(None, PyInt(0), PyStr("ok"), None),
     Snapshot(PyList(<<>>), PyInt(0), PyStr("degraded"), NotFound),
     Snapshot(PyInt(7), PyInt(7), PyStr("ok"), None),
     Snapshot(PyText(<<"n", "/", "a">>), PyInt(0), PyStr("ok"), None)} \cup
    {Snapshot(PyList(OldRows(n)), PyInt(n), PyStr("ok"), None) : n \in 1..MaxPrevRows}

Procs == {1, 2}

(***************************************************************************)
(* scraper.py                                                              *)
(***************************************************************************)
\* faulty variant of load_existing_payload: the file is never read
load_existing_payload_unread(f) == EmptyDict

\* load_existing_payload(): {} unless the file exists and is JSON
load_existing_payload(f) ==
    IF f.t \in {"missing", "garbage"} THEN EmptyDict ELSE f

NetworkError == PyStr("Network error")

\* fetch_html(), given what the two clients do: create_scraper is called
\* outside the try blocks, an exception of the first request is caught whatever
\* it is, one of the second request only if it is a RequestException
fetch_html(first, second) ==
    IF first.kind = "create_scraper"
    THEN [html |-> None, err |-> None, exc |-> "RuntimeError"]
    ELSE IF first.kind = "ok"
    THEN [html |-> Html(first.page), err |-> None, exc |-> ""]
    ELSE IF second.kind = "ok"
    THEN [html |-> Html(second.page), err |-> None, exc |-> ""]
    ELSE IF second.kind = "RequestException"
    THEN [html |-> None, err |-> NetworkError, exc |-> ""]
    ELSE [html |-> None, err |-> None, exc |-> second.kind]

\* dict.get(key): None when the key is absent
get(d, key) == IF d.v[key].t = "absent" THEN None ELSE d.v[key]

StaleWarning == PyStr("Using last known standings (new scrape failed)")

\* faulty variant of fallback: the previous rows are never taken
fallback_never(rows, ferr, perr, prev) ==
    [standings |-> rows, warning |-> PyOr(ferr, perr),
     exc |-> IF ~Truthy(rows) /\ prev.t # "dict" THEN "AttributeError" ELSE ""]

\* faulty variant of fallback: the previous rows are taken without a warning
fallback_silent(rows, ferr, perr, prev) ==
    LET w == PyOr(ferr, perr)
    IN  IF Truthy(rows) THEN [standings |-> rows, warning |-> w, exc |-> ""]
        ELSE IF prev.t # "dict" THEN [standings |-> rows, warning |-> w, exc |-> "AttributeError"]
        ELSE IF Truthy(get(prev, "standings"))
             THEN [standings |-> get(prev, "standings"), warning |-> w, exc |-> ""]
             ELSE [standings |-> rows, warning |-> w, exc |-> ""]

\* faulty variant of fallback: the note replaces the warning of the run
fallback_note_only(rows, ferr, perr, prev) ==
    LET w == PyOr(ferr, perr)
    IN  IF Truthy(rows) THEN [standings |-> rows, warning |-> w, exc |-> ""]
        ELSE IF prev.t # "dict" THEN [standings |-> rows, warning |-> w, exc |-> "AttributeError"]
        ELSE IF Truthy(get(prev, "standings"))
             THEN [standings |-> get(prev, "standings"), warning |-> StaleWarning, exc |-> ""]
             ELSE [standings |-> rows, warning |-> w, exc |-> ""]

\* main(), lines 130-135: the warning and the fallback to the previous rows.
\* `not standings and previous_payload.get(...)` calls get only when standings
\* is empty; on a value that is no dict the call raises AttributeError.
fallback(rows, ferr, perr, prev) ==
    LET w == PyOr(ferr, perr)
    IN  IF Truthy(rows) THEN [standings |-> rows, warning |-> w, exc |-> ""]
        ELSE IF prev.t # "dict" THEN [standings |-> rows, warning |-> w, exc |-> "AttributeError"]
        ELSE IF Truthy(get(prev, "standings"))
             THEN [standings |-> get(prev, "standings"),
                   warning |-> PyOr(w, StaleWarning), exc |-> ""]
             ELSE [standings |-> rows, warning |-> w, exc |-> ""]

\* faulty variant of build_payload: the status follows the rows, not the warning
build_payload_status_by_rows(rows, w) ==
    Snapshot(rows, PyInt(PyLen(rows)),
             IF Truthy(rows) THEN PyStr("ok") ELSE PyStr("degraded"), w)

\* build_payload(standings, warning); len(standings) must be defined
build_payload(rows, w) ==
    Snapshot(rows, PyInt(PyLen(rows)),
             IF w = None THEN PyStr("ok") ELSE PyStr("degraded"), w)

\* the local variables of a run that has not started
Reset(p) ==
    /\ previous_payload' = [previous_payload EXCEPT ![p] = None]
    /\ html' = [html EXCEPT ![p] = None]
    /\ fetch_error' = [fetch_error EXCEPT ![p] = None]
    /\ table' = [table EXCEPT ![p] = 0]
    /\ standings' = [standings EXCEPT ![p] = PyList(<<>>)]
    /\ parse_error' = [parse_error EXCEPT ![p] = None]
    /\ warning' = [warning EXCEPT ![p] = None]
    /\ payload' = [payload EXCEPT ![p] = None]
    /\ exc' = [exc EXCEPT ![p] = ""]

\* faulty variant of Load: a run waits until no other run holds the file
LoadLocked(p) ==
    /\ pc[p] = "idle"
    /\ \A q \in Procs \ {p} : pc[q] = "idle"
    /\ pc' = [pc EXCEPT ![p] = "loaded"]
    /\ previous_payload' = [previous_payload EXCEPT ![p] = load_existing_payload(file)]
    /\ UNCHANGED <<file, html, fetch_error, table, standings, parse_error, warning,
                   payload, exc, scrapper_html, scrapper_standings>>

\* main(), line 122
Load(p) ==
    /\ pc[p] = "idle"
    /\ pc' = [pc EXCEPT ![p] = "loaded"]
    /\ previous_payload' = [previous_payload EXCEPT ![p] = load_existing_payload(file)]
    /\ UNCHANGED <<file, html, fetch_error, table, standings, parse_error, warning,
                   payload, exc, scrapper_html, scrapper_standings>>

\* a run started by the scheduler once the run before it has ended
LoadSeq(p) ==
    /\ \A q \in Procs \ {p} : pc[q] = "idle"
    /\ Load(p)

\* main(), lines 123-125
FetchFrom(p, firsts, seconds) ==
    /\ pc[p] = "loaded"
    /\ \E first \in firsts, second \in seconds :
        LET r == fetch_html(first, second)
        IN  /\ pc' = [pc EXCEPT ![p] = IF r.exc = "" THEN "fetched" ELSE "raised"]
            /\ html' = [html EXCEPT ![p] = r.html]
            /\ fetch_error' = [fetch_error EXCEPT ![p] = r.err]
            /\ exc' = [exc EXCEPT ![p] = r.exc]
    /\ UNCHANGED <<file, previous_payload, table, standings, parse_error, warning,
                   payload, scrapper_html, scrapper_standings>>

Fetch(p) == FetchFrom(p, FirstOutcomes, ClientOutcomes)

\* main(), line 127, html empty or None: parse_standings is not called
SkipParse(p) ==
    /\ pc[p] = "fetched"
    /\ ~Truthy(html[p])
    /\ pc' = [pc EXCEPT ![p] = "parsed"]
    /\ UNCHANGED <<file, previous_payload, html, fetch_error, table, standings,
                   parse_error, warning, payload, exc, scrapper_html, scrapper_standings>>

\* parse_standings(), lines 75-76
FindTable(p) ==
    /\ pc[p] = "fetched"
    /\ Truthy(html[p])
    /\ pc' = [pc EXCEPT ![p] = "found"]
    /\ table' = [table EXCEPT ![p] = find_target_table(html[p].v)]
    /\ UNCHANGED <<file, previous_payload, html, fetch_error, standings, parse_error,
                   warning, payload, exc, scrapper_html, scrapper_standings>>

\* parse_standings(), lines 77-99, and the assignment of line 128
ExtractRows(p) ==
    /\ pc[p] = "found"
    /\ LET r == extract_rows(html[p].v, table[p])
       IN  /\ standings' = [standings EXCEPT ![p] = PyList(r.rows)]
           /\ parse_error' = [parse_error EXCEPT ![p] = r.err]
    /\ pc' = [pc EXCEPT ![p] = "parsed"]
    /\ UNCHANGED <<file, previous_payload, html, fetch_error, table, warning, payload,
                   exc, scrapper_html, scrapper_standings>>

\* main(), lines 130-137
Build(p) ==
    /\ pc[p] = "parsed"
    /\ LET r == fallback(standings[p], fetch_error[p], parse_error[p], previous_payload[p])
       IN  IF r.exc # ""
           THEN /\ pc' = [pc EXCEPT ![p] = "raised"]
                /\ exc' = [exc EXCEPT ![p] = r.exc]
                /\ warning' = [warning EXCEPT ![p] = r.warning]
                /\ UNCHANGED <<standings, payload>>
           ELSE /\ standings' = [standings EXCEPT ![p] = r.standings]
                /\ warning' = [warning EXCEPT ![p] = r.warning]
                /\ IF HasLen(r.standings)
                   THEN /\ payload' = [payload EXCEPT ![p] = build_payload(r.standings, r.warning)]
                        /\ pc' = [pc EXCEPT ![p] = "built"]
                        /\ exc' = exc
                   ELSE /\ payload' = payload
                        /\ pc' = [pc EXCEPT ![p] = "raised"]
                        /\ exc' = [exc EXCEPT ![p] = "TypeError"]
    /\ UNCHANGED <<file, previous_payload, html, fetch_error, table, parse_error,
                   scrapper_html, scrapper_standings>>

\* save_payload(): the file now holds the payload
SaveOk(p) ==
    /\ pc[p] = "built"
    /\ file' = payload[p]
    /\ pc' = [pc EXCEPT ![p] = "saved"]
    /\ UNCHANGED <<previous_payload, html, fetch_error, table, standings, parse_error,
                   warning, payload, exc, scrapper_html, scrapper_standings>>

\* save_payload(): write_text raises; the file is as it was or is cut short
SaveFail(p) ==
    /\ pc[p] = "built"
    /\ file' \in {file, FileGarbage}
    /\ pc' = [pc EXCEPT ![p] = "raised"]
    /\ exc' = [exc EXCEPT ![p] = "OSError"]
    /\ UNCHANGED <<previous_payload, html, fetch_error, table, standings, parse_error,
                   warning, payload, scrapper_html, scrapper_standings>>

\* the process ends, returning from main() or on the exception
Exit(p) ==
    /\ pc[p] \in {"saved", "raised"}
    /\ pc' = [pc EXCEPT ![p] = "idle"]
    /\ Reset(p)
    /\ UNCHANGED <<file, scrapper_html, scrapper_standings>>

\* scrapper.py main(), line 104
ScrapperParse ==
    /\ scrapper_html.t = "html"
    /\ scrapper_standings = None
    /\ \A p \in Procs : pc[p] \in {"idle", "parsed"}
    /\ scrapper_standings' = PyList(scrapper_parse_standings(scrapper_html.v))
    /\ UNCHANGED <<file, pc, previous_payload, html, fetch_error, table, standings,
                   parse_error, warning, payload, exc, scrapper_html>>

(***************************************************************************)
(* Specifications                                                          *)
(***************************************************************************)
Idle ==
    /\ pc = [p \in Procs |-> "idle"]
    /\ previous_payload = [p \in Procs |-> None]
    /\ html = [p \in Procs |-> None]
    /\ fetch_error = [p \in Procs |-> None]
    /\ table = [p \in Procs |-> 0]
    /\ standings = [p \in Procs |-> PyList(<<>>)]
    /\ parse_error = [p \in Procs |-> None]
    /\ warning = [p \in Procs |-> None]
    /\ payload = [p \in Procs |-> None]
    /\ exc = [p \in Procs |-> ""]
    /\ scrapper_html = None
    /\ scrapper_standings = None

\* runs of main() one after the other, as the scheduler starts them
Init ==
    /\ file \in InitialFiles
    /\ Idle

Next ==
    \E p \in Procs :
        \/ LoadSeq(p)
        \/ Fetch(p)
        \/ SkipParse(p)
        \/ FindTable(p)
        \/ ExtractRows(p)
        \/ Build(p)
        \/ SaveOk(p)
        \/ SaveFail(p)
        \/ Exit(p)

Spec == Init /\ [][Next]_vars

\* two runs of main() started without regard to each other
ConcFiles == {FileMissing, Snapshot(PyList(OldRows(1)), PyInt(1), PyStr("ok"), None)}

ConcOutcomes == {[kind |-> "ok", page |-> PageA], Failure("RequestException")}

FetchConc(p) == FetchFrom(p, ConcOutcomes, ConcOutcomes)

InitConc ==
    /\ file \in ConcFiles
    /\ Idle

NextConc ==
    \E p \in Procs :
        \/ Load(p)
        \/ FetchConc(p)
        \/ SkipParse(p)
        \/ FindTable(p)
        \/ ExtractRows(p)
        \/ Build(p)
        \/ SaveOk(p)
        \/ SaveFail(p)
        \/ Exit(p)

SpecConc == InitConc /\ [][NextConc]_vars

\* the extraction alone: both scripts on the same fetched markup
InitExtract ==
    /\ file = FileMissing
    /\ \E doc \in Markups \cup {EmptyPage} :
        /\ html = [p \in Procs |-> IF p = 1 THEN Html(doc) ELSE None]
        /\ scrapper_html = Html(doc)
    /\ pc = [p \in Procs |-> IF p = 1 THEN "fetched" ELSE "idle"]
    /\ previous_payload = [p \in Procs |-> IF p = 1 THEN EmptyDict ELSE None]
    /\ fetch_error = [p \in Procs |-> None]
    /\ table = [p \in Procs |-> 0]
    /\ standings = [p \in Procs |-> PyList(<<>>)]
    /\ parse_error = [p \in Procs |-> None]
    /\ warning = [p \in Procs |-> None]
    /\ payload = [p \in Procs |-> None]
    /\ exc = [p \in Procs |-> ""]
    /\ scrapper_standings = None

NextExtract ==
    \/ SkipParse(1)
    \/ FindTable(1)
    \/ ExtractRows(1)
    \/ ScrapperParse

SpecExtract == InitExtract /\ [][NextExtract]_vars

(***************************************************************************)
(* Properties                                                              *)
(***************************************************************************)
\* the previous snapshot of run p holds N > 0 rows
PrevHasRows(p) ==
    /\ previous_payload[p].t = "dict"
    /\ get(previous_payload[p], "standings").t = "list"
    /\ get(previous_payload[p], "standings").v # <<>>

\* run p wrote its snapshot after taking the rows of the previous one
Substituted(p) ==
    /\ pc[p] = "saved"
    /\ ~Truthy(html[p]) \/ parse_error[p] # None
    /\ previous_payload[p].t = "dict"
    /\ Truthy(get(previous_payload[p], "standings"))

\* C1: a run that starts from a previous snapshot of N > 0 rows and whose
\* fetch step or parse step fails writes a snapshot with those N rows,
\* standing_count = N, a non-null warning and status "degraded".
C1_Fallback ==
    \A p \in Procs :
        (/\ pc[p] = "saved"
         /\ PrevHasRows(p)
         /\ fetch_error[p] # None \/ parse_error[p] # None)
        => /\ file = payload[p]
           /\ payload[p].v.standings = get(previous_payload[p], "standings")
           /\ payload[p].v.standing_count
                = PyInt(Len(get(previous_payload[p], "standings").v))
           /\ payload[p].v.warning # None
           /\ payload[p].v.status = PyStr("degraded")

C1_Witness ==
    \E p \in Procs :
        /\ pc[p] = "saved"
        /\ PrevHasRows(p)
        /\ Len(get(previous_payload[p], "standings").v) = MaxPrevRows
        /\ fetch_error[p] = NetworkError
        /\ payload[p].v.standing_count = PyInt(MaxPrevRows)

\* C2: a run of main() ends without a written snapshot only when the write
\* itself fails: no other exception ends a run.
C2_AlwaysWrites ==
    \A p \in Procs : pc[p] = "raised" => exc[p] = "OSError"

\* C3: in every snapshot written, standing_count is the length of standings
\* and status is "degraded" exactly when warning is non-null, "ok" otherwise.
C3_SnapshotInvariant ==
    \A p \in Procs :
        pc[p] = "saved"
        => /\ file = payload[p]
           /\ file.v.standing_count = PyInt(Len(file.v.standings.v))
           /\ file.v.status = PyStr("degraded") <=> file.v.warning # None
           /\ file.v.status = PyStr("ok") <=> file.v.warning = None

C3_Witness ==
    \E p \in Procs :
        /\ Substituted(p)
        /\ file.v.status = PyStr("degraded")
        /\ file.v.standing_count = PyInt(MaxPrevRows)

\* C4: a run without previous rows whose fetch succeeds with markup that has
\* no qualifying table writes standings [], standing_count 0, status
\* "degraded" and the table-not-found warning.
C4_NoTableDegraded ==
    \A p \in Procs :
        (/\ pc[p] = "saved"
         /\ ~Truthy(get(previous_payload[p], "standings"))
         /\ fetch_error[p] = None
         /\ html[p].t = "html"
         /\ find_target_table(html[p].v) = 0)
        => /\ payload[p].v.standings = PyList(<<>>)
           /\ payload[p].v.standing_count = PyInt(0)
           /\ payload[p].v.status = PyStr("degraded")
           /\ payload[p].v.warning = NotFound

\* the file holds a snapshot with a non-empty sequence of rows
HoldsRows(f) ==
    /\ f.t = "dict"
    /\ f.v.standings.t = "list"
    /\ f.v.standings.v # <<>>

\* C5: once the file holds a snapshot with rows, no step of runs made one
\* after the other leaves it without rows, unless the step is a failed write.
C5_NeverBlanked ==
    [][(/\ HoldsRows(file)
        /\ ~(\E p \in Procs : pc[p] = "built" /\ pc'[p] = "raised"))
       => HoldsRows(file')]_vars

C5_Witness ==
    \E p \in Procs :
        /\ pc[p] = "saved"
        /\ HoldsRows(previous_payload[p])
        /\ parse_error[p] = NoRows
        /\ HoldsRows(file)

\* the rows with at least 3 data cells
Qualifying(rows) == {j \in 1..Len(rows) : Len(rows[j]) >= 3}

\* the k-th of them, in document order
Nth(rows, k) ==
    CHOOSE j \in Qualifying(rows) : Cardinality({i \in Qualifying(rows) : i <= j}) = k

CellOr(cells, i) == IF i <= Len(cells) THEN clean_text(cells[i]) ELSE <<>>

\* one record per qualifying row, in document order, with the six fields
\* taken from cells 0..5, the empty string standing for a missing cell
RowsAsClaimed(rows, out) ==
    /\ Len(out) = Cardinality(Qualifying(rows))
    /\ \A k \in 1..Len(out) :
        LET cells == rows[Nth(rows, k)]
        IN  /\ out[k].rank = clean_text(cells[1])
            /\ out[k].name = clean_text(cells[2])
            /\ out[k].points = clean_text(cells[3])
            /\ out[k].played = CellOr(cells, 4)
            /\ out[k].won = CellOr(cells, 5)
            /\ out[k].lost = CellOr(cells, 6)

\* scraper.py's parse_standings does as C6 says
C6_ScraperRows ==
    (pc[1] = "parsed" /\ Truthy(html[1]) /\ table[1] # 0)
    => /\ RowsAsClaimed(html[1].v.tables[table[1]].tr, standings[1].v)
       /\ Qualifying(html[1].v.tables[table[1]].tr) = {}
            => standings[1] = PyList(<<>>) /\ parse_error[1] # None

\* scrapper.py's parse_standings returns one record per row of at least 3 cells
C6_ScrapperRows ==
    (scrapper_standings # None /\ scrapper_find_from(scrapper_html.v.tables, 1) # 0)
    => Len(scrapper_standings.v)
         = Cardinality(Qualifying(
             scrapper_html.v.tables[scrapper_find_from(scrapper_html.v.tables, 1)].tr))

\* C6: parse_standings returns one record per row of the selected table
\* that has at least 3 data cells, in document order, with rank, name,
\* points from cells 0, 1, 2 and played, won, lost from cells 3, 4, 5 or
\* empty; with no such row, an empty sequence and a non-null warning.
C6_OneRecordPerRow == C6_ScraperRows /\ C6_ScrapperRows

C6_Witness ==
    /\ pc[1] = "parsed"
    /\ table[1] = 2
    /\ Len(standings[1].v) = 2
    /\ standings[1].v[1].played = <<>>
    /\ standings[1].v[2].lost # <<>>

\* C7, as claimed: whenever the previous rows are substituted, the warning
\* written is the note that last-known data is served.
C7_StaleNoteAlways ==
    \A p \in Procs : Substituted(p) => payload[p].v.warning = StaleWarning

\* C7, amended: whenever the previous rows are substituted, the warning
\* written is the run's fetch error if it has one, else its parse error if
\* it has one, else the note that last-known data is served.
C7_StaleNoteUnlessError ==
    \A p \in Procs :
        Substituted(p)
        => payload[p].v.warning =
             (IF fetch_error[p] # None THEN fetch_error[p]
              ELSE IF parse_error[p] # None THEN parse_error[p]
              ELSE StaleWarning)

C7_Witness ==
    \E p \in Procs :
        /\ Substituted(p)
        /\ fetch_error[p] = NetworkError
        /\ payload[p].v.warning = NetworkError
        /\ payload[p].v.standings = get(previous_payload[p], "standings")

\* some header cell of the table, lower-cased, contains the marker
HeaderHas(tbl, marker) ==
    \E k \in 1..Len(tbl.th) : Contains(lower(clean_text(tbl.th[k])), marker)

Qualifies(tbl) ==
    /\ HeaderHas(tbl, Pts)
    /\ HeaderHas(tbl, Equipe) \/ HeaderHas(tbl, Rang) \/ HeaderHas(tbl, Classement)

\* C8: the table selected is the first, in document order, whose header
\* text has the points marker and one of the three other markers; when no
\* table has, parse_standings returns no rows and the table-not-found warning.
C8_FirstQualifyingTable ==
    (pc[1] \in {"found", "parsed"} /\ Truthy(html[1]))
    => LET tables == html[1].v.tables
       IN  /\ table[1] # 0
                => /\ Qualifies(tables[table[1]])
                   /\ \A i \in 1..(table[1] - 1) : ~Qualifies(tables[i])
           /\ table[1] = 0 => \A i \in 1..Len(tables) : ~Qualifies(tables[i])
           /\ (pc[1] = "parsed" /\ table[1] = 0)
                => standings[1] = PyList(<<>>) /\ parse_error[1] = NotFound

C8_Witness ==
    /\ pc[1] = "parsed"
    /\ Len(html[1].v.tables) = 2
    /\ ~Qualifies(html[1].v.tables[1])
    /\ HeaderHas(html[1].v.tables[1], Pts)
    /\ Qualifies(html[1].v.tables[2])
    /\ table[1] = 2
    /\ standings[1].v # <<>>

\* C9: a snapshot written with status "ok" holds exactly the rows extracted
\* from the markup fetched in the same run, and a snapshot holding the rows
\* of the previous one is "degraded" with a non-null warning.
C9_OkIsFresh ==
    \A p \in Procs :
        /\ (pc[p] = "saved" /\ payload[p].v.status = PyStr("ok"))
            => payload[p].v.standings =
                 PyList(IF Truthy(html[p]) THEN parse_standings(html[p].v).rows ELSE <<>>)
        /\ Substituted(p)
            => /\ payload[p].v.status = PyStr("degraded")
               /\ payload[p].v.warning # None

C9_Witness ==
    \E p \in Procs :
        /\ pc[p] = "saved"
        /\ PrevHasRows(p)
        /\ payload[p].v.status = PyStr("ok")
        /\ payload[p].v.standings # PyList(<<>>)
        /\ payload[p].v.standings # get(previous_payload[p], "standings")

\* a run may read and write the file whatever the other run is doing
NoLocking ==
    \A p \in Procs :
        /\ pc[p] = "idle" => ENABLED Load(p)
        /\ pc[p] = "built" => ENABLED SaveOk(p)

\* a run reads the file only in its first step, the file changes only in
\* the last step of a run
ReadFirstWriteLast ==
    /\ \A p \in Procs :
        previous_payload'[p] # previous_payload[p]
        => \/ pc[p] = "idle" /\ pc'[p] = "loaded"
           \/ pc'[p] = "idle"
    /\ file' # file
        => \E p \in Procs : pc[p] = "built" /\ pc'[p] \in {"saved", "raised"}

\* C10: each run reads the file at most once, before fetching, and writes
\* it once, at the end, with no locking.
C10_ReadOnceWriteOnceNoLock == []NoLocking /\ [][ReadFirstWriteLast]_vars

\* the lost update: run p loaded the old snapshot, run q then wrote fresh
\* rows with status "ok", and p, its fetch failed, wrote the old rows over them
C10_LostUpdate ==
    \E p, q \in Procs :
        /\ p # q
        /\ pc[p] = "saved" /\ pc[q] = "saved"
        /\ payload[q].v.status = PyStr("ok")
        /\ payload[q].v.standings # PyList(<<>>)
        /\ previous_payload[p] # payload[q]
        /\ PrevHasRows(p)
        /\ fetch_error[p] # None
        /\ payload[p].v.standings = get(previous_payload[p], "standings")
        /\ payload[p].v.standings # payload[q].v.standings
        /\ file = payload[p]

====
